---- MODULE Spec2Model ----
(***************************************************************************)
(* A model of ptb/train/train.py: train_classifier (the training           *)
(* orchestrator: resume, baseline validation, learning-rate schedule,      *)
(* epoch loop, best-metric tracking, checkpointing, NaN check) and         *)
(* one_epoch (one pass over a loader with the closure handed to            *)
(* optimizer.step).                                                        *)
(*                                                                         *)
(* Spec       train_classifier, run up to MaxRuns times on one file system *)
(* EpochSpec  one_epoch, one call                                          *)
(* PairSpec   two runs of train_classifier that differ in log_dir only,     *)
(*            step by step                                                 *)
(***************************************************************************)
EXTENDS Integers, Sequences, FiniteSets, TLC

\* ---------------------------------------------------------------- bounds
MaxEpochs == 2        \* epoch budgets of an ordinary run: 1..MaxEpochs
LongEpochs == 31      \* epoch budget of the long run (crosses one decay step)
MaxAcc == 2           \* accuracy averages are drawn from 0..MaxAcc
MaxRuns == 2          \* invocations of train_classifier on the same disk
MaxBatches == 2       \* a loader yields 0..MaxBatches batches
MaxBatchSize == 2     \* a batch holds 1..MaxBatchSize samples
MaxCalls == 3         \* optimizer.step invokes its closure 0..MaxCalls times

\* ------------------------------------------------------- program constants
DecayPeriod == 30     \* epoch // 30, epoch % 30
NaN == -1             \* the float NaN; every other float is a number >= 0

\* ------------------------------------------------------------------ floats
IsNaN(x) == x = NaN

\* a >= b on floats: False whenever an operand is NaN
FloatGe(a, b) == ~IsNaN(a) /\ ~IsNaN(b) /\ a >= b

RECURSIVE Pow10(_)
Pow10(k) == IF k = 0 THEN 1 ELSE 10 * Pow10(k - 1)

\* learning rates are fixed-point numbers with LrUnit = 1.0
LrUnit == 1000
LearningRates == {LrUnit, 2 * LrUnit}

\* learning_rate * (0.1 ** (epoch // 30))
get_lr(learning_rate, epoch) == learning_rate \div Pow10(epoch \div DecayPeriod)

\* ------------------------------------------------------------------ meters
\* An AverageMeter as train_classifier reads it: its name and its average.
Meter(name, avg) == [name |-> name, avg |-> avg]
NoMeter == Meter("", 0)

\* a != b on two AverageMeter objects. The class defines update, reset and the
\* average only, so Python compares the objects by identity.
MeterNe(a, b) == a # b

LossAvgs == {1, NaN}
AccAvgs == 0..MaxAcc

\* -------------------------------------------------------------- file system
\* Path('') is "no path". "ckpt" is a writable file path; "nodir/ckpt" lies in
\* a directory that does not exist, so nothing can be written there.
NoPath == ""
CheckpointPaths == {NoPath, "ckpt", "nodir/ckpt"}
ResumePaths == {NoPath, "ckpt"}
Writable(path) == path = "ckpt"

\* ------------------------------------------------------ models and devices
Models == {"alexnet", "resnet18"}

\* len(devices): the accelerators get_device_order() found.
DeviceCounts == {1, 2}

\* model.startswith('alexnet') or model.startswith('vgg')
HasFeatures(model) == model \in {"alexnet", "vgg16"}

\* The names of net.state_dict() right after line 54, in order; a name is the
\* sequence of its dot-separated parts.
ParamNames(model) ==
    IF HasFeatures(model)
    THEN << <<"features", "0", "weight">>, <<"classifier", "1", "weight">> >>
    ELSE << <<"conv1", "weight">>, <<"fc", "weight">> >>

\* The name a parameter has in state_dict() under the wrapping par: DataParallel
\* holds what it wraps as its attribute "module".
LiveName(name, par) ==
    CASE par = "none" -> name
      [] par = "net" -> <<"module">> \o name
      [] par = "features" -> IF Head(name) = "features"
                             THEN <<"features", "module">> \o Tail(name)
                             ELSE name

\* net.state_dict().keys(), in order.
StateDictNames(model, par) ==
    [i \in DOMAIN ParamNames(model) |-> LiveName(ParamNames(model)[i], par)]

\* net.state_dict().values(), in order: each tensor is what parameter
\* ParamNames(model)[i] holds after `weights` training passes.
StateDictValues(model, weights) ==
    [i \in DOMAIN ParamNames(model) |-> <<ParamNames(model)[i], weights>>]

\* OrderedDict(zip(ks, vs)): pairs up to the shorter of the two.
Zip(ks, vs) ==
    [i \in (DOMAIN ks) \cap (DOMAIN vs) |-> [name |-> ks[i], value |-> vs[i]]]

\* The names of a stored state_dict, and the weights it holds.
NamesOf(sd) == {sd[i].name : i \in DOMAIN sd}
WeightsOf(sd) == sd[1].value[2]

\* ----------------------------------------------------------- configurations
\* The arguments of train_classifier, and the device count of the machine.
Configs ==
    [evaluate_only : BOOLEAN, learning_rate : LearningRates,
     epochs : 1..MaxEpochs, checkpoint : CheckpointPaths,
     resume : ResumePaths, log_dir : BOOLEAN,
     model : {"resnet18"}, devices : {1}]
    \cup
    [evaluate_only : {FALSE}, learning_rate : {LrUnit},
     epochs : {LongEpochs}, checkpoint : {NoPath},
     resume : {NoPath}, log_dir : {FALSE},
     model : {"resnet18"}, devices : {1}]
    \cup
    [evaluate_only : {FALSE}, learning_rate : {LrUnit},
     epochs : {1}, checkpoint : {"ckpt"},
     resume : ResumePaths, log_dir : {FALSE},
     model : Models, devices : DeviceCounts]

VARIABLES
    run,          \* which invocation of train_classifier this is
    cfg,          \* the arguments of train_classifier
    disk,         \* the file "ckpt": <<>> or <<checkpoint record>>
    pc,           \* the position in train_classifier
    net,          \* the model weights: the number of training passes behind them
    parallel,     \* what DataParallel wraps: "none", "net" or "features"
    optimizer,    \* [lr: the param groups' lr, steps: passes behind its state]
    best_acc1, start_epoch, epoch, lr,
    train_loss,   \* train_progress['Loss']
    val_acc,      \* progress['Acc@1'] of the last validation pass
    writer,       \* the SummaryWriter: [open, graphs, scalars]
    stopped,      \* 'Training was stopped (reached NaN)!' was printed
    \* history of the current run
    prev_best,    \* best_acc1 when line 133 was last evaluated
    save_call,    \* the record of the last torch.save call: <<>> or <<record>>
    save_epoch,   \* the epoch index at which that call was made
    disk_from,    \* what the saving run held when it wrote the file on disk:
                  \* <<>> or <<[epoch, net, optimizer, best_acc1]>>
    resumed,      \* what line 76 loaded: <<>> or <<[state, from]>>
    baselines,    \* validation passes run at line 93
    trained,      \* epoch indices whose training pass has run
    validated,    \* epoch indices whose validation pass has run
    after_nan,    \* a training pass ran after one of this run that averaged NaN
    lr_sets,      \* executions of lines 108-110
    val_net,      \* the weights the last validation pass measured
    other,        \* the second run of a pair of runs, while the first one moves:
                  \* <<>> when train_classifier is run alone
    not_found,    \* line 83 printed "=> no checkpoint found at ..."
    \* one_epoch
    opc,          \* the position in one_epoch
    is_training,  \* optimizer is not None
    loader,       \* the batch sizes the loader yields
    epsilon, factor, temperature,
    training,     \* net.training, the mode of the model
    grad_enabled, \* torch's gradient mode
    meters,       \* the five AverageMeters, by name
    batch,        \* the number of batches pulled from the loader
    first_time,   \* the closure's flag
    calls,        \* invocations of the closure for the current batch
    grad,         \* the accumulated gradients: <<batch, invocation>> terms
    base_loss,    \* criterion(output, targets) of the last invocation (line 167)
    logits,       \* the margin logits of line 172: one row per sample
    scale,        \* temperature * max_abs_logits of line 174: one divisor per row
    robust_loss,  \* criterion(logits, targets) of line 175, when last computed
    loss,         \* what the closure last returned
    opt_steps,    \* completed optimizer.step calls
    bounds_calls, \* calls of propagate_bounds
    ret,          \* the mapping one_epoch returns: <<>> until it returns
    \* history of the call
    invoked,      \* invoked[b]: closure invocations for batch b
    updates       \* updates[name]: the <<batch, weight>> of each update

oeVars == <<opc, is_training, loader, epsilon, factor, temperature, training,
            grad_enabled, meters, batch, first_time, calls, grad, base_loss,
            logits, scale, robust_loss, loss, opt_steps, bounds_calls, ret,
            invoked, updates>>
tcVars == <<run, cfg, disk, pc, net, parallel, optimizer, best_acc1, start_epoch, epoch,
            lr, train_loss, val_acc, writer, stopped>>
histVars == <<prev_best, save_call, save_epoch, disk_from, resumed, baselines,
              trained, validated, after_nan, lr_sets, not_found,
              val_net>>
vars == <<tcVars, histVars, oeVars, other>>

\* resume.is_file()
is_file(path) == path = "ckpt" /\ disk # <<>>

\* keys taken at the moment of the save, from the model as it is then.
keys_live == StateDictNames(cfg.model, parallel)

\* Line 55: the names of the model as line 54 built it, before any wrapping.
keys == StateDictNames(cfg.model, "none")

\* Line 136: parameters = net.state_dict().values()
parameters == StateDictValues(cfg.model, net)

\* net.load_state_dict(sd) accepts sd when its names are those of the model.
Loadable(sd) == NamesOf(sd) = {StateDictNames(cfg.model, parallel)[i] :
                                  i \in DOMAIN StateDictNames(cfg.model, parallel)}

NoWriter == [open |-> FALSE, graphs |-> 0, scalars |-> 0]

\* CheckpointRecord with the epoch index itself stored, not the next one.
CheckpointRecord_same_epoch(e, weights, best, opt) ==
    [epoch |-> e, state_dict |-> weights, best_acc1 |-> best, optimizer |-> opt]

\* The dictionary handed to torch.save.
CheckpointRecord(e, weights, best, opt) ==
    [epoch |-> e + 1, state_dict |-> weights, best_acc1 |-> best,
     optimizer |-> opt]

\* IsBest with > for >=: a tie no longer counts.
IsBest_strict(acc, best) == ~IsNaN(acc) /\ ~IsNaN(best) /\ acc > best

\* IsBest with the comparison lost: every epoch counts as the best.
IsBest_always(acc, best) == TRUE

\* val_acc.avg >= best_acc1
IsBest(acc, best) == FloatGe(acc, best)

\* epoch % 30 == 0
IsDecayEpoch(e) == e % DecayPeriod = 0

\* Lines 25-73: a fresh model and optimizer, best_acc1 = 0, start_epoch = 0.
TcInit ==
    /\ run = 1
    /\ cfg \in Configs
    /\ disk = <<>>
    /\ pc = "resume"
    /\ net = 0
    /\ parallel = "none"
    /\ optimizer = [lr |-> cfg.learning_rate, steps |-> 0]
    /\ best_acc1 = 0
    /\ start_epoch = 0
    /\ epoch = 0
    /\ lr = 0
    /\ train_loss = NoMeter
    /\ val_acc = NoMeter
    /\ writer = NoWriter
    /\ stopped = FALSE
    /\ prev_best = 0
    /\ save_call = <<>>
    /\ save_epoch = 0
    /\ disk_from = <<>>
    /\ resumed = <<>>
    /\ baselines = 0
    /\ trained = {}
    /\ validated = {}
    /\ after_nan = FALSE
    /\ lr_sets = 0
    /\ not_found = FALSE
    /\ val_net = 0

\* Resume with a missing file treated as an error: the run ends there.
Resume_missing_is_fatal ==
    /\ pc = "resume"
    /\ pc' = IF ~is_file(cfg.resume) /\ cfg.resume # NoPath
             THEN "crashed"
             ELSE IF is_file(cfg.resume) /\ ~Loadable(disk[1].state_dict)
                  THEN "crashed" ELSE "parallel"
    /\ IF is_file(cfg.resume)
       THEN LET state == disk[1] IN
            /\ start_epoch' = state.epoch
            /\ best_acc1' = state.best_acc1
            /\ IF Loadable(state.state_dict)
               THEN /\ net' = WeightsOf(state.state_dict)
                    /\ optimizer' = state.optimizer
                    /\ resumed' = <<[state |-> state, from |-> disk_from[1]]>>
               ELSE UNCHANGED <<net, optimizer, resumed>>
       ELSE UNCHANGED <<start_epoch, best_acc1, net, optimizer, resumed>>
    /\ not_found' = (~is_file(cfg.resume) /\ cfg.resume # NoPath)
    /\ UNCHANGED <<other, val_net, parallel, oeVars, run, cfg, disk, epoch, lr, train_loss, val_acc, writer,
                   stopped, prev_best, save_call, save_epoch, disk_from,
                   baselines, trained, validated, after_nan, lr_sets>>

\* Lines 74-83: load the checkpoint when the resume path is a file; say so
\* when a path was given and there is no file. load_state_dict raises on a
\* state_dict whose names are not the model's, after lines 77-78 have run.
Resume ==
    /\ pc = "resume"
    /\ pc' = IF is_file(cfg.resume) /\ ~Loadable(disk[1].state_dict)
             THEN "crashed" ELSE "parallel"
    /\ not_found' = (~is_file(cfg.resume) /\ cfg.resume # NoPath)
    /\ IF is_file(cfg.resume)
       THEN LET state == disk[1] IN
            /\ start_epoch' = state.epoch
            /\ best_acc1' = state.best_acc1
            /\ IF Loadable(state.state_dict)
               THEN /\ net' = WeightsOf(state.state_dict)
                    /\ optimizer' = state.optimizer
                    /\ resumed' = <<[state |-> state, from |-> disk_from[1]]>>
               ELSE UNCHANGED <<net, optimizer, resumed>>
       ELSE UNCHANGED <<start_epoch, best_acc1, net, optimizer, resumed>>
    /\ UNCHANGED <<other, val_net, parallel, oeVars, run, cfg, disk, epoch, lr, train_loss, val_acc, writer,
                   stopped, prev_best, save_call, save_epoch, disk_from,
                   baselines, trained, validated, after_nan, lr_sets>>

\* Lines 86-90: with more than one device, wrap the feature extractor of an
\* alexnet or vgg model, or the whole of any other model, in DataParallel.
Parallelize ==
    /\ pc = "parallel"
    /\ parallel' = IF cfg.devices > 1
                   THEN IF HasFeatures(cfg.model) THEN "features" ELSE "net"
                   ELSE parallel
    /\ pc' = "baseline"
    /\ UNCHANGED <<other, oeVars, run, cfg, disk, net, optimizer, best_acc1, start_epoch,
                   epoch, lr, train_loss, val_acc, writer, stopped, histVars>>

\* BaselineValidation without the return of line 98.
BaselineValidation_no_return ==
    /\ pc = "baseline"
    /\ val_net' = net
    /\ \E a \in AccAvgs : val_acc' = Meter("Acc@1", a)
    /\ baselines' = baselines + 1
    /\ pc' = "writer"
    /\ UNCHANGED <<other, parallel, not_found, oeVars, run, cfg, disk, net, optimizer, best_acc1, start_epoch, epoch,
                   lr, train_loss, writer, stopped, prev_best, save_call,
                   save_epoch, disk_from, resumed, trained, validated,
                   after_nan, lr_sets>>

\* Lines 93-98: the validation pass before training; return when evaluate_only.
BaselineValidation ==
    /\ pc = "baseline"
    /\ val_net' = net
    /\ \E a \in AccAvgs : val_acc' = Meter("Acc@1", a)
    /\ baselines' = baselines + 1
    /\ pc' = IF cfg.evaluate_only THEN "done" ELSE "writer"
    /\ UNCHANGED <<other, parallel, not_found, oeVars, run, cfg, disk, net, optimizer, best_acc1, start_epoch, epoch,
                   lr, train_loss, writer, stopped, prev_best, save_call,
                   save_epoch, disk_from, resumed, trained, validated,
                   after_nan, lr_sets>>

\* OpenWriter with line 104 inside the if of line 100: without a log directory
\* lr keeps its value.
OpenWriter_lr_under_log_dir ==
    /\ pc = "writer"
    /\ writer' = IF cfg.log_dir
                 THEN [open |-> TRUE, graphs |-> 1, scalars |-> 0]
                 ELSE writer
    /\ lr' = IF cfg.log_dir THEN get_lr(cfg.learning_rate, start_epoch) ELSE lr
    /\ epoch' = start_epoch
    /\ pc' = "loop"
    /\ UNCHANGED <<other, parallel, oeVars, run, cfg, disk, net, optimizer, best_acc1, start_epoch,
                   train_loss, val_acc, stopped, histVars>>

\* Lines 100-105: open the writer, lr = get_lr(start_epoch), enter the loop.
OpenWriter ==
    /\ pc = "writer"
    /\ writer' = IF cfg.log_dir
                 THEN [open |-> TRUE, graphs |-> 1, scalars |-> 0]
                 ELSE writer
    /\ lr' = get_lr(cfg.learning_rate, start_epoch)
    /\ epoch' = start_epoch
    /\ pc' = "loop"
    /\ UNCHANGED <<other, parallel, oeVars, run, cfg, disk, net, optimizer, best_acc1, start_epoch,
                   train_loss, val_acc, stopped, histVars>>

\* Lines 105-110: the loop test, and the decay of the learning rate.
LoopHead ==
    /\ pc = "loop"
    /\ IF epoch < cfg.epochs
       THEN /\ pc' = "train"
            /\ IF IsDecayEpoch(epoch)
               THEN /\ lr' = get_lr(cfg.learning_rate, epoch)
                    /\ optimizer' = [optimizer EXCEPT !.lr = lr']
                    /\ lr_sets' = lr_sets + 1
               ELSE UNCHANGED <<lr, optimizer, lr_sets>>
       ELSE /\ pc' = "close"
            /\ UNCHANGED <<lr, optimizer, lr_sets>>
    /\ UNCHANGED <<other, val_net, parallel, not_found, oeVars, run, cfg, disk, net, best_acc1, start_epoch, epoch, train_loss,
                   val_acc, writer, stopped, prev_best, save_call, save_epoch,
                   disk_from, resumed, baselines, trained, validated, after_nan>>

\* TrainPass with the NaN test moved up: a NaN average goes straight to line 144.
TrainPass_nan_skips_validation ==
    /\ pc = "train"
    /\ \E l \in LossAvgs :
         /\ train_loss' = Meter("Loss", l)
         /\ pc' = IF IsNaN(l) THEN "nan" ELSE "val"
    /\ after_nan' = (after_nan \/ IsNaN(train_loss.avg))
    /\ net' = net + 1
    /\ optimizer' = [optimizer EXCEPT !.steps = @ + 1]
    /\ trained' = trained \cup {epoch}
    /\ UNCHANGED <<other, val_net, parallel, not_found, oeVars, run, cfg, disk, best_acc1, start_epoch, epoch, lr, val_acc,
                   writer, stopped, prev_best, save_call, save_epoch, disk_from,
                   resumed, baselines, validated, lr_sets>>

\* Lines 113-115: the training pass, process(train_loader, optimizer).
TrainPass ==
    /\ pc = "train"
    /\ \E l \in LossAvgs : train_loss' = Meter("Loss", l)
    /\ after_nan' = (after_nan \/ IsNaN(train_loss.avg))
    /\ net' = net + 1
    /\ optimizer' = [optimizer EXCEPT !.steps = @ + 1]
    /\ trained' = trained \cup {epoch}
    /\ pc' = "val"
    /\ UNCHANGED <<other, val_net, parallel, not_found, oeVars, run, cfg, disk, best_acc1, start_epoch, epoch, lr, val_acc,
                   writer, stopped, prev_best, save_call, save_epoch, disk_from,
                   resumed, baselines, validated, lr_sets>>

\* ValPass handed the optimizer: the pass that measures the accuracy also
\* trains the weights.
ValPass_with_optimizer ==
    /\ pc = "val"
    /\ \E a \in AccAvgs : val_acc' = Meter("Acc@1", a)
    /\ validated' = validated \cup {epoch}
    /\ pc' = "log"
    /\ val_net' = net
    /\ net' = net + 1
    /\ optimizer' = [optimizer EXCEPT !.steps = @ + 1]
    /\ UNCHANGED <<other, parallel, not_found, oeVars, run, cfg, disk, best_acc1, start_epoch, epoch,
                   lr, train_loss, writer, stopped, prev_best, save_call,
                   save_epoch, disk_from, resumed, baselines, trained,
                   after_nan, lr_sets>>

\* Lines 117-123: the validation pass of the epoch, and the summary line.
ValPass ==
    /\ pc = "val"
    /\ \E a \in AccAvgs : val_acc' = Meter("Acc@1", a)
    /\ validated' = validated \cup {epoch}
    /\ pc' = "log"
    /\ val_net' = net
    /\ UNCHANGED <<other, parallel, not_found, oeVars, run, cfg, disk, net, optimizer, best_acc1, start_epoch, epoch,
                   lr, train_loss, writer, stopped, prev_best, save_call,
                   save_epoch, disk_from, resumed, baselines, trained,
                   after_nan, lr_sets>>

\* Lines 125-130: the learning rate and the five meters of each pass.
LogScalars ==
    /\ pc = "log"
    /\ writer' = IF cfg.log_dir
                 THEN [writer EXCEPT !.scalars = @ + 11]
                 ELSE writer
    /\ pc' = "best"
    /\ UNCHANGED <<other, parallel, oeVars, run, cfg, disk, net, optimizer, best_acc1, start_epoch, epoch,
                   lr, train_loss, val_acc, stopped, histVars>>

\* Lines 133-142: remember the best Acc@1 and save the checkpoint. torch.save
\* raises on a path it cannot write, and nothing catches it.
RememberBest ==
    /\ pc = "best"
    /\ prev_best' = best_acc1
    /\ IF IsBest(val_acc.avg, best_acc1)
       THEN /\ best_acc1' = val_acc.avg
            /\ IF cfg.checkpoint # NoPath
               THEN LET rec == CheckpointRecord(epoch, Zip(keys, parameters),
                                                best_acc1', optimizer) IN
                    /\ save_call' = <<rec>>
                    /\ save_epoch' = epoch
                    /\ IF Writable(cfg.checkpoint)
                       THEN /\ disk' = <<rec>>
                            /\ disk_from' = <<[epoch |-> epoch, net |-> net,
                                              optimizer |-> optimizer,
                                              best_acc1 |-> best_acc1',
                                              parallel |-> parallel]>>
                            /\ pc' = "nan"
                       ELSE /\ pc' = "crashed"
                            /\ UNCHANGED <<disk, disk_from>>
               ELSE /\ pc' = "nan"
                    /\ UNCHANGED <<save_call, save_epoch, disk, disk_from>>
       ELSE /\ pc' = "nan"
            /\ UNCHANGED <<best_acc1, save_call, save_epoch, disk, disk_from>>
    /\ UNCHANGED <<other, val_net, parallel, not_found, oeVars, run, cfg, net, optimizer, start_epoch, epoch, lr, train_loss,
                   val_acc, writer, stopped, resumed, baselines, trained,
                   validated, after_nan, lr_sets>>

\* Lines 144-146: train_loss != train_loss, on the meter itself.
DivergenceCheck ==
    /\ pc = "nan"
    /\ IF MeterNe(train_loss, train_loss)
       THEN /\ stopped' = TRUE
            /\ pc' = "close"
            /\ UNCHANGED epoch
       ELSE /\ epoch' = epoch + 1
            /\ pc' = "loop"
            /\ UNCHANGED stopped
    /\ UNCHANGED <<other, parallel, oeVars, run, cfg, disk, net, optimizer, best_acc1, start_epoch, lr,
                   train_loss, val_acc, writer, histVars>>

\* Lines 147-148: close the writer and return.
CloseWriter ==
    /\ pc = "close"
    /\ writer' = IF cfg.log_dir THEN [writer EXCEPT !.open = FALSE] ELSE writer
    /\ pc' = "done"
    /\ UNCHANGED <<other, parallel, oeVars, run, cfg, disk, net, optimizer, best_acc1, start_epoch, epoch,
                   lr, train_loss, val_acc, stopped, histVars>>

\* train_classifier is called again, on the disk the earlier run left and with
\* the model architecture of the earlier run.
NewRun ==
    /\ pc \in {"done", "crashed"}
    /\ run < MaxRuns
    /\ run' = run + 1
    /\ cfg' \in Configs
    /\ cfg'.model = cfg.model
    /\ pc' = "resume"
    /\ net' = 0
    /\ parallel' = "none"
    /\ optimizer' = [lr |-> cfg'.learning_rate, steps |-> 0]
    /\ best_acc1' = 0
    /\ start_epoch' = 0
    /\ epoch' = 0
    /\ lr' = 0
    /\ train_loss' = NoMeter
    /\ val_acc' = NoMeter
    /\ writer' = NoWriter
    /\ stopped' = FALSE
    /\ prev_best' = 0
    /\ save_call' = <<>>
    /\ save_epoch' = 0
    /\ resumed' = <<>>
    /\ baselines' = 0
    /\ trained' = {}
    /\ validated' = {}
    /\ after_nan' = FALSE
    /\ lr_sets' = 0
    /\ UNCHANGED <<other, oeVars, disk, disk_from>>
    /\ not_found' = FALSE
    /\ val_net' = 0

Next ==
    \/ Resume
    \/ Parallelize
    \/ BaselineValidation
    \/ OpenWriter
    \/ LoopHead
    \/ TrainPass
    \/ ValPass
    \/ LogScalars
    \/ RememberBest
    \/ DivergenceCheck
    \/ CloseWriter
    \/ NewRun

\* ---------------------------------------------------------------- one_epoch
FloatAdd(a, b) == IF IsNaN(a) \/ IsNaN(b) THEN NaN ELSE a + b
FloatMul(a, b) == IF IsNaN(a) \/ IsNaN(b) THEN NaN ELSE a * b

\* AverageMeter(name, fmt): nothing recorded yet.
AverageMeter(name) == [name |-> name, sum |-> 0, count |-> 0]

\* AverageMeter.update(val, n): val * n joins the sum and n the count.
Update(m, val, n) ==
    [m EXCEPT !.sum = FloatAdd(@, FloatMul(val, n)), !.count = @ + n]

\* Lines 154-158.
NewMeters ==
    [batch_time |-> AverageMeter("Time/BatchTotal"),
     data_time |-> AverageMeter("Time/BatchData"),
     losses |-> AverageMeter("Loss"),
     top1 |-> AverageMeter("Acc@1"),
     top5 |-> AverageMeter("Acc@5")]

MeterNames == {"Time/BatchTotal", "Time/BatchData", "Loss", "Acc@1", "Acc@5"}
NoUpdates == [name \in MeterNames |-> <<>>]

\* Line 223: {x.name: x for x in (batch_time, data_time, losses, top1, top5)};
\* a later meter of the same name would replace an earlier one.
Mapping(ms) ==
    LET order == <<ms.batch_time, ms.data_time, ms.losses, ms.top1, ms.top5>>
        last(name) == CHOOSE k \in DOMAIN order :
                         /\ order[k].name = name
                         /\ \A j \in DOMAIN order : order[j].name = name => j <= k
    IN [name \in {order[k].name : k \in DOMAIN order} |-> order[last(name)]]

\* A loader yields full batches of batch_size samples and a last batch of
\* 1..batch_size samples, or nothing at all.
Loaders ==
    {<<>>} \cup
    {[k \in 1..len |-> IF k < len THEN MaxBatchSize ELSE last] :
        len \in 1..MaxBatches, last \in 1..MaxBatchSize}
BaseLosses == {1, NaN}
RobustLosses == {2}
Accs == 0..1
\* a time() difference: its size decides nothing, one value stands for all
Elapsed == {1}

\* zero_grad that clears nothing.
zero_grad_skipped(g) == g

\* optimizer.zero_grad()
zero_grad(g) == <<>>

\* loss.backward(): the gradients of this loss are added to the stored ones.
backward(g, term) == Append(g, term)

Temperatures == {1, 2}

\* What bounds_logits returns for a sample: one logit per class, not all zero.
MarginRows == << <<-1, 0>>, <<2, 0>>, <<0, 1>> >>

\* The margin logits of a batch of n samples.
MarginLogits(n) ==
    {[i \in 1..n |-> MarginRows[((i + k) % Len(MarginRows)) + 1]] :
        k \in 0..(Len(MarginRows) - 1)}

Abs(x) == IF x < 0 THEN -x ELSE x
MaxOf(S) == CHOOSE m \in S : \A x \in S : x <= m

\* max_abs_logits without .abs(): the largest logit of the row.
max_abs_logits_signed(row) == MaxOf({row[j] : j \in DOMAIN row})

\* logits.abs().max(1).values, for one row.
max_abs_logits(row) == MaxOf({Abs(row[j]) : j \in DOMAIN row})

\* compute_loss with "or" for the "and" of line 170.
compute_loss_either(base, robust, acc1, acc5, update_metrics) ==
    LET with_bounds == epsilon > 0 \/ factor > 0
        total == IF with_bounds
                 THEN FloatAdd(base, FloatMul(factor, robust))
                 ELSE base
        n == loader[batch]
    IN /\ base_loss' = base
       /\ bounds_calls' = IF with_bounds THEN bounds_calls + 1 ELSE bounds_calls
       /\ IF with_bounds
          THEN /\ \E lg \in MarginLogits(n) :
                    /\ logits' = lg
                    /\ scale' = [i \in 1..n |->
                                    temperature * max_abs_logits(lg[i])]
               /\ robust_loss' = robust
          ELSE UNCHANGED <<logits, scale, robust_loss>>
       /\ IF update_metrics
          THEN /\ meters' = [meters EXCEPT !.losses = Update(@, total, n),
                                           !.top1 = Update(@, acc1, n),
                                           !.top5 = Update(@, acc5, n)]
               /\ updates' = [updates EXCEPT
                                !["Loss"] = Append(@, <<batch, n>>),
                                !["Acc@1"] = Append(@, <<batch, n>>),
                                !["Acc@5"] = Append(@, <<batch, n>>)]
          ELSE UNCHANGED <<meters, updates>>
       /\ grad' = IF is_training
                  THEN backward(zero_grad(grad), <<batch, calls + 1>>)
                  ELSE grad
       /\ loss' = total

\* Lines 164-191, compute_loss(inputs, targets, update_metrics) for the current
\* batch: base is criterion(output, targets), robust criterion(logits, targets),
\* acc1 and acc5 what compute_accuracy returns.
compute_loss(base, robust, acc1, acc5, update_metrics) ==
    LET with_bounds == epsilon > 0 /\ factor > 0
        total == IF with_bounds
                 THEN FloatAdd(base, FloatMul(factor, robust))
                 ELSE base
        n == loader[batch]
    IN /\ base_loss' = base
       /\ bounds_calls' = IF with_bounds THEN bounds_calls + 1 ELSE bounds_calls
       /\ IF with_bounds
          THEN /\ \E lg \in MarginLogits(n) :
                    /\ logits' = lg
                    /\ scale' = [i \in 1..n |->
                                    temperature * max_abs_logits(lg[i])]
               /\ robust_loss' = robust
          ELSE UNCHANGED <<logits, scale, robust_loss>>
       /\ IF update_metrics
          THEN /\ meters' = [meters EXCEPT !.losses = Update(@, total, n),
                                           !.top1 = Update(@, acc1, n),
                                           !.top5 = Update(@, acc5, n)]
               /\ updates' = [updates EXCEPT
                                !["Loss"] = Append(@, <<batch, n>>),
                                !["Acc@1"] = Append(@, <<batch, n>>),
                                !["Acc@5"] = Append(@, <<batch, n>>)]
          ELSE UNCHANGED <<meters, updates>>
       /\ grad' = IF is_training
                  THEN backward(zero_grad(grad), <<batch, calls + 1>>)
                  ELSE grad
       /\ loss' = total

\* closure without line 211: the flag stays as it was.
closure_keeps_flag ==
    /\ \E base \in BaseLosses, robust \in RobustLosses, acc1 \in Accs, acc5 \in Accs :
          /\ acc1 <= acc5
          /\ compute_loss(base, robust, acc1, acc5, first_time)
    /\ first_time' = first_time
    /\ calls' = calls + 1
    /\ invoked' = [invoked EXCEPT ![batch] = @ + 1]

\* Lines 204-212: the closure of the current batch.
closure ==
    /\ \E base \in BaseLosses, robust \in RobustLosses, acc1 \in Accs, acc5 \in Accs :
          /\ acc1 <= acc5
          /\ compute_loss(base, robust, acc1, acc5, first_time)
    /\ first_time' = FALSE
    /\ calls' = calls + 1
    /\ invoked' = [invoked EXCEPT ![batch] = @ + 1]

\* No call of one_epoch is in progress.
OeIdle ==
    /\ opc = "idle"
    /\ is_training = FALSE
    /\ loader = <<>>
    /\ epsilon = 0
    /\ factor = 0
    /\ temperature = 1
    /\ training = FALSE
    /\ grad_enabled = TRUE
    /\ meters = NewMeters
    /\ batch = 0
    /\ first_time = FALSE
    /\ calls = 0
    /\ grad = <<>>
    /\ base_loss = 0
    /\ logits = <<>>
    /\ scale = <<>>
    /\ robust_loss = 0
    /\ loss = 0
    /\ opt_steps = 0
    /\ bounds_calls = 0
    /\ ret = <<>>
    /\ invoked = <<>>
    /\ updates = NoUpdates

\* one_epoch is called: with or without an optimizer, on any loader, with the
\* model in either mode (eval after construction, train after a training pass).
OeInit ==
    /\ opc = "enter"
    /\ is_training \in BOOLEAN
    /\ loader \in Loaders
    /\ epsilon \in {0, 1}
    /\ factor \in {0, 1}
    /\ temperature \in Temperatures
    /\ training \in BOOLEAN
    /\ grad_enabled = TRUE
    /\ meters = NewMeters
    /\ batch = 0
    /\ first_time = FALSE
    /\ calls = 0
    /\ grad = <<>>
    /\ base_loss = 0
    /\ logits = <<>>
    /\ scale = <<>>
    /\ robust_loss = 0
    /\ loss = 0
    /\ opt_steps = 0
    /\ bounds_calls = 0
    /\ ret = <<>>
    /\ invoked = <<>>
    /\ updates = NoUpdates

\* Enter without the with block of line 193: the gradient mode stays on.
Enter_grad_mode_kept ==
    /\ opc = "enter"
    /\ meters' = NewMeters
    /\ training' = is_training
    /\ grad_enabled' = grad_enabled
    /\ opc' = "next"
    /\ UNCHANGED <<other, temperature, base_loss, logits, scale, robust_loss, tcVars, histVars, is_training, loader, epsilon, factor, batch,
                   first_time, calls, grad, loss, opt_steps, bounds_calls, ret,
                   invoked, updates>>

\* Lines 154-162 and 193-194: the meters, the mode, the gradient mode.
Enter ==
    /\ opc = "enter"
    /\ meters' = NewMeters
    /\ training' = is_training
    /\ grad_enabled' = is_training
    /\ opc' = "next"
    /\ UNCHANGED <<other, temperature, base_loss, logits, scale, robust_loss, tcVars, histVars, is_training, loader, epsilon, factor, batch,
                   first_time, calls, grad, loss, opt_steps, bounds_calls, ret,
                   invoked, updates>>

\* NextBatch with line 202 hoisted out of the loop: the flag is set for the
\* first batch only.
NextBatch_flag_set_once ==
    /\ opc = "next"
    /\ IF batch < Len(loader)
       THEN /\ batch' = batch + 1
            /\ \E dt \in Elapsed :
                 /\ meters' = [meters EXCEPT !.data_time = Update(@, dt, 1)]
                 /\ updates' = [updates EXCEPT
                                  !["Time/BatchData"] = Append(@, <<batch', 1>>)]
            /\ first_time' = IF batch = 0 THEN TRUE ELSE first_time
            /\ calls' = 0
            /\ invoked' = Append(invoked, 0)
            /\ opc' = IF is_training THEN "step" ELSE "eval"
       ELSE /\ opc' = "exit"
            /\ UNCHANGED <<batch, meters, updates, first_time, calls, invoked>>
    /\ UNCHANGED <<other, temperature, base_loss, logits, scale, robust_loss, tcVars, histVars, is_training, loader, epsilon, factor,
                   training, grad_enabled, grad, loss, opt_steps, bounds_calls,
                   ret>>

\* Lines 195-202 and 214: pull the next batch, record the data time, set the
\* flag; the loop ends when the loader is exhausted.
NextBatch ==
    /\ opc = "next"
    /\ IF batch < Len(loader)
       THEN /\ batch' = batch + 1
            /\ \E dt \in Elapsed :
                 /\ meters' = [meters EXCEPT !.data_time = Update(@, dt, 1)]
                 /\ updates' = [updates EXCEPT
                                  !["Time/BatchData"] = Append(@, <<batch', 1>>)]
            /\ first_time' = TRUE
            /\ calls' = 0
            /\ invoked' = Append(invoked, 0)
            /\ opc' = IF is_training THEN "step" ELSE "eval"
       ELSE /\ opc' = "exit"
            /\ UNCHANGED <<batch, meters, updates, first_time, calls, invoked>>
    /\ UNCHANGED <<other, temperature, base_loss, logits, scale, robust_loss, tcVars, histVars, is_training, loader, epsilon, factor,
                   training, grad_enabled, grad, loss, opt_steps, bounds_calls,
                   ret>>

\* Line 215, inside optimizer.step(closure): the optimizer invokes the closure.
StepCallsClosure ==
    /\ opc = "step"
    /\ calls < MaxCalls
    /\ closure
    /\ UNCHANGED <<other, temperature, tcVars, histVars, opc, is_training, loader, epsilon, factor,
                   training, grad_enabled, batch, opt_steps, ret>>

\* Line 215: optimizer.step(closure) returns, after any number of invocations.
StepReturns ==
    /\ opc = "step"
    /\ opt_steps' = opt_steps + 1
    /\ opc' = "timed"
    /\ UNCHANGED <<other, temperature, base_loss, logits, scale, robust_loss, tcVars, histVars, is_training, loader, epsilon, factor,
                   training, grad_enabled, meters, batch, first_time, calls, grad,
                   loss, bounds_calls, ret, invoked, updates>>

\* Line 217: an evaluation pass calls the closure itself, once.
EvalCallsClosure ==
    /\ opc = "eval"
    /\ closure
    /\ opc' = "timed"
    /\ UNCHANGED <<other, temperature, tcVars, histVars, is_training, loader, epsilon, factor,
                   training, grad_enabled, batch, opt_steps, ret>>

\* Lines 219-221: record the batch time.
BatchTime ==
    /\ opc = "timed"
    /\ \E dt \in Elapsed :
         meters' = [meters EXCEPT !.batch_time = Update(@, dt, 1)]
    /\ updates' = [updates EXCEPT !["Time/BatchTotal"] = Append(@, <<batch, 1>>)]
    /\ opc' = "next"
    /\ UNCHANGED <<other, temperature, base_loss, logits, scale, robust_loss, tcVars, histVars, is_training, loader, epsilon, factor,
                   training, grad_enabled, batch, first_time, calls, grad, loss,
                   opt_steps, bounds_calls, ret, invoked>>

\* Lines 193 and 223: leave the with block (the gradient mode it replaced comes
\* back) and return the meters by name.
Return ==
    /\ opc = "exit"
    /\ grad_enabled' = TRUE
    /\ ret' = <<Mapping(meters)>>
    /\ opc' = "returned"
    /\ UNCHANGED <<other, temperature, base_loss, logits, scale, robust_loss, tcVars, histVars, is_training, loader, epsilon, factor,
                   training, meters, batch, first_time, calls, grad, loss,
                   opt_steps, bounds_calls, invoked, updates>>

EpochNext ==
    \/ Enter
    \/ NextBatch
    \/ StepCallsClosure
    \/ StepReturns
    \/ EvalCallsClosure
    \/ BatchTime
    \/ Return

\* train_classifier is inside a call of process(): its own state does not move.
TcIdle ==
    /\ run = 1
    /\ cfg = [evaluate_only |-> FALSE, learning_rate |-> LrUnit, epochs |-> 1,
              checkpoint |-> NoPath, resume |-> NoPath, log_dir |-> FALSE,
              model |-> "resnet18", devices |-> 1]
    /\ disk = <<>>
    /\ pc = "process"
    /\ net = 0
    /\ parallel = "none"
    /\ optimizer = [lr |-> LrUnit, steps |-> 0]
    /\ best_acc1 = 0
    /\ start_epoch = 0
    /\ epoch = 0
    /\ lr = 0
    /\ train_loss = NoMeter
    /\ val_acc = NoMeter
    /\ writer = NoWriter
    /\ stopped = FALSE
    /\ prev_best = 0
    /\ save_call = <<>>
    /\ save_epoch = 0
    /\ disk_from = <<>>
    /\ resumed = <<>>
    /\ baselines = 0
    /\ trained = {}
    /\ validated = {}
    /\ after_nan = FALSE
    /\ lr_sets = 0
    /\ not_found = FALSE
    /\ val_net = 0

EpochInit == OeInit /\ TcIdle /\ other = <<>>

EpochSpec == EpochInit /\ [][EpochNext]_vars

Init == TcInit /\ OeIdle /\ other = <<>>

Spec == Init /\ [][Next]_vars

\* ------------------------------------------------------------- a pair of runs
\* Two runs of train_classifier on the same arguments but for log_dir, each on
\* its own copy of the same disk. One run at a time is in the variables of
\* train_classifier and the second one is held in `other`; a run takes one
\* step, the two are swapped, and the second run takes its step.

\* The run in the variables, as a record.
Copy ==
    [run |-> run, cfg |-> cfg, disk |-> disk, pc |-> pc, net |-> net,
     parallel |-> parallel, optimizer |-> optimizer, best_acc1 |-> best_acc1,
     start_epoch |-> start_epoch, epoch |-> epoch, lr |-> lr,
     train_loss |-> train_loss, val_acc |-> val_acc, writer |-> writer,
     stopped |-> stopped, prev_best |-> prev_best, save_call |-> save_call,
     save_epoch |-> save_epoch, disk_from |-> disk_from, resumed |-> resumed,
     baselines |-> baselines, trained |-> trained, validated |-> validated,
     after_nan |-> after_nan, lr_sets |-> lr_sets, not_found |-> not_found,
     val_net |-> val_net]

\* How far a run has come: every step of train_classifier raises it.
Position(c) ==
    LET at == ("resume" :> 0) @@ ("parallel" :> 1) @@ ("baseline" :> 2) @@
              ("writer" :> 3) @@ ("loop" :> 4) @@ ("train" :> 5) @@
              ("val" :> 6) @@ ("log" :> 7) @@ ("best" :> 8) @@ ("nan" :> 9) @@
              ("close" :> 0) @@ ("done" :> 1) @@ ("crashed" :> 1)
    IN IF c.pc \in {"resume", "parallel", "baseline", "writer"}
       THEN at[c.pc]
       ELSE IF c.pc \in {"close", "done", "crashed"}
            THEN 10 * (c.cfg.epochs + 3) + 10 * c.epoch + at[c.pc]
            ELSE 10 * (c.epoch + 1) + at[c.pc]

\* A run without what the log directory is for: the argument and the writer.
ObsOf(c) == [c EXCEPT !.writer = NoWriter, !.cfg.log_dir = FALSE]

\* The run in the variables may take a step: it leads when the two runs are at
\* the same position and agree on everything but the log directory and the
\* writer, and it follows when it is behind.
MayStep ==
    /\ other # <<>>
    /\ IF Position(Copy) = Position(other)
       THEN ObsOf(Copy) = ObsOf(other)
       ELSE Position(Copy) < Position(other)

\* The run in the variables is ahead: the two runs change places.
Swap ==
    /\ other # <<>>
    /\ Position(Copy) > Position(other)
    /\ other' = Copy
    /\ run' = other.run
    /\ cfg' = other.cfg
    /\ disk' = other.disk
    /\ pc' = other.pc
    /\ net' = other.net
    /\ parallel' = other.parallel
    /\ optimizer' = other.optimizer
    /\ best_acc1' = other.best_acc1
    /\ start_epoch' = other.start_epoch
    /\ epoch' = other.epoch
    /\ lr' = other.lr
    /\ train_loss' = other.train_loss
    /\ val_acc' = other.val_acc
    /\ writer' = other.writer
    /\ stopped' = other.stopped
    /\ prev_best' = other.prev_best
    /\ save_call' = other.save_call
    /\ save_epoch' = other.save_epoch
    /\ disk_from' = other.disk_from
    /\ resumed' = other.resumed
    /\ baselines' = other.baselines
    /\ trained' = other.trained
    /\ validated' = other.validated
    /\ after_nan' = other.after_nan
    /\ lr_sets' = other.lr_sets
    /\ not_found' = other.not_found
    /\ val_net' = other.val_net
    /\ UNCHANGED oeVars

PairResume == MayStep /\ Resume

PairParallelize == MayStep /\ Parallelize

PairBaselineValidation == MayStep /\ BaselineValidation

PairOpenWriter == MayStep /\ OpenWriter

PairLoopHead == MayStep /\ LoopHead

PairTrainPass == MayStep /\ TrainPass

PairValPass == MayStep /\ ValPass

PairLogScalars == MayStep /\ LogScalars

PairRememberBest == MayStep /\ RememberBest

PairDivergenceCheck == MayStep /\ DivergenceCheck

PairCloseWriter == MayStep /\ CloseWriter

PairNext ==
    \/ PairResume
    \/ PairParallelize
    \/ PairBaselineValidation
    \/ PairOpenWriter
    \/ PairLoopHead
    \/ PairTrainPass
    \/ PairValPass
    \/ PairLogScalars
    \/ PairRememberBest
    \/ PairDivergenceCheck
    \/ PairCloseWriter
    \/ Swap

\* What a run of one epoch that reached Acc@1 = 1 left in the file "ckpt".
SavedBefore(model) ==
    [epoch |-> 0, net |-> 1, optimizer |-> [lr |-> LrUnit, steps |-> 1],
     best_acc1 |-> 1, parallel |-> "none"]

PairInit ==
    /\ OeIdle
    /\ run = 1
    /\ cfg \in {c \in Configs : c.epochs <= MaxEpochs}
    /\ \E before \in {<<>>, <<SavedBefore(cfg.model)>>} :
          /\ disk_from = before
          /\ disk = [i \in DOMAIN before |->
                        CheckpointRecord(before[i].epoch,
                                         Zip(StateDictNames(cfg.model, "none"),
                                             StateDictValues(cfg.model, before[i].net)),
                                         before[i].best_acc1, before[i].optimizer)]
    /\ pc = "resume"
    /\ net = 0
    /\ parallel = "none"
    /\ optimizer = [lr |-> cfg.learning_rate, steps |-> 0]
    /\ best_acc1 = 0
    /\ start_epoch = 0
    /\ epoch = 0
    /\ lr = 0
    /\ train_loss = NoMeter
    /\ val_acc = NoMeter
    /\ writer = NoWriter
    /\ stopped = FALSE
    /\ prev_best = 0
    /\ save_call = <<>>
    /\ save_epoch = 0
    /\ resumed = <<>>
    /\ baselines = 0
    /\ trained = {}
    /\ validated = {}
    /\ after_nan = FALSE
    /\ lr_sets = 0
    /\ not_found = FALSE
    /\ val_net = 0
    /\ other = [Copy EXCEPT !.cfg.log_dir = ~cfg.log_dir]

PairSpec == PairInit /\ [][PairNext]_vars

\* ------------------------------------------------------------------ claims
\* The positions of name's update log that belong to batch b.
UpdatesFor(name, b) == {k \in DOMAIN updates[name] : updates[name][k][1] = b}

RECURSIVE SamplesOf(_)
\* The samples of the batches 1..b on which the closure was invoked.
SamplesOf(b) ==
    IF b = 0 THEN 0
    ELSE SamplesOf(b - 1) + (IF invoked[b] >= 1 THEN loader[b] ELSE 0)

ClosureMeters == {"Loss", "Acc@1", "Acc@5"}
TimeMeters == {"Time/BatchTotal", "Time/BatchData"}

\* C1: in a training pass, every batch on which optimizer.step has invoked the
\* closure at least once (once, twice, three times) is in the Loss, Acc@1 and
\* Acc@5 meters exactly once, with the batch size as weight, whatever happened
\* on the batches before it.
C1_MetersOncePerBatch ==
    is_training =>
        /\ \A b \in 1..batch : invoked[b] >= 1 =>
              \A name \in ClosureMeters :
                  /\ Cardinality(UpdatesFor(name, b)) = 1
                  /\ \A k \in UpdatesFor(name, b) : updates[name][k][2] = loader[b]
        /\ meters.losses.count = SamplesOf(batch)
        /\ meters.top1.count = SamplesOf(batch)
        /\ meters.top5.count = SamplesOf(batch)

\* C1 witness: a pass of two batches returned, the closure invoked three times
\* on the first batch and once on the second.
C1_Witness ==
    /\ opc = "returned"
    /\ is_training
    /\ invoked = <<3, 1>>
    /\ meters.losses.count = loader[1] + loader[2]

\* C2 as stated: the returned mapping has the five names and every meter holds
\* every batch of the loader exactly once.
C2_EveryMeterEveryBatch ==
    opc = "returned" =>
        /\ DOMAIN ret[1] = MeterNames
        /\ \A name \in MeterNames : \A b \in 1..Len(loader) :
              Cardinality(UpdatesFor(name, b)) = 1

\* C2 amended: the returned mapping has the five names, each on the meter of
\* that name; the two time meters hold every batch exactly once; Loss, Acc@1
\* and Acc@5 hold a batch exactly once when the closure was invoked for it (as
\* it always is in an evaluation pass) and not at all when optimizer.step
\* returned without invoking it.
C2_MetersFollowInvocations ==
    opc = "returned" =>
        /\ DOMAIN ret[1] = MeterNames
        /\ \A name \in MeterNames : ret[1][name].name = name
        /\ \A b \in 1..Len(loader) :
              /\ \A name \in TimeMeters : Cardinality(UpdatesFor(name, b)) = 1
              /\ \A name \in ClosureMeters :
                    Cardinality(UpdatesFor(name, b)) = (IF invoked[b] >= 1 THEN 1 ELSE 0)
              /\ ~is_training => invoked[b] = 1
        /\ ret[1]["Time/BatchTotal"].count = Len(loader)
        /\ ret[1]["Time/BatchData"].count = Len(loader)
        /\ ret[1]["Loss"].count = SamplesOf(Len(loader))

\* C2 witness: a training pass returned whose optimizer did not invoke the
\* closure on the first batch and invoked it twice on the second.
C2_Witness ==
    /\ opc = "returned"
    /\ is_training
    /\ invoked = <<0, 2>>
    /\ ret[1]["Loss"].count = loader[2]

\* C3 as stated: once a training pass has averaged NaN, no training pass of a
\* later epoch is run.
C3_NoEpochAfterNaN == ~after_nan

\* C4 as stated: in the epoch whose training pass averaged NaN, no validation
\* pass is run.
C4_ValidationSkippedOnNaN == IsNaN(train_loss.avg) => epoch \notin validated

\* C4 amended: the NaN test of line 144 is reached only after the validation
\* pass of the same epoch (and after its scalars were written, when a sink is
\* configured): no epoch's validation pass is skipped, a NaN epoch's included.
C4_NaNTestAfterValidation ==
    /\ pc = "nan" =>
          /\ epoch \in trained
          /\ epoch \in validated
          /\ cfg.log_dir => writer.scalars = 11 * Cardinality(validated)
    /\ \A e \in trained : e \notin validated => (e = epoch /\ pc = "val")

\* C4 witness: the NaN test is reached in an epoch whose training pass averaged
\* NaN, after its validation pass and after a checkpoint was saved in it.
C4_Witness ==
    /\ pc = "nan"
    /\ IsNaN(train_loss.avg)
    /\ epoch \in validated
    /\ save_call # <<>>
    /\ save_epoch = epoch
    /\ disk = save_call

\* torch.save was called in the current epoch.
SavedThisEpoch == save_call # <<>> /\ save_epoch = epoch

\* C5: right after lines 133-142 of an epoch, torch.save has been called in
\* that epoch iff a checkpoint path is configured and the epoch's validation
\* Acc@1 average is >= the best so far; the file on a writable path is then the
\* record just saved; best_acc1 is the validation average when the comparison
\* holds and unchanged otherwise; without a checkpoint path torch.save is never
\* called.
C5_SaveIffBest ==
    /\ pc \in {"nan", "crashed"} =>
          LET is_best == FloatGe(val_acc.avg, prev_best) IN
          /\ SavedThisEpoch <=> (is_best /\ cfg.checkpoint # NoPath)
          /\ (SavedThisEpoch /\ Writable(cfg.checkpoint)) =>
                /\ disk = save_call
                /\ disk[1].best_acc1 = val_acc.avg
                /\ disk[1].epoch = epoch + 1
          /\ best_acc1 = (IF is_best THEN val_acc.avg ELSE prev_best)
    /\ cfg.checkpoint = NoPath => save_call = <<>>

\* C5 witness: a validation average equal to a best of at least 1 wrote a
\* checkpoint over the one an earlier epoch of the run had written.
C5_Witness ==
    /\ pc = "nan"
    /\ epoch > start_epoch
    /\ val_acc.avg = prev_best
    /\ prev_best >= 1
    /\ SavedThisEpoch
    /\ disk = save_call
    /\ disk_from[1].epoch = epoch

\* C6: within a run, the resume step included, best_acc1 never decreases, and
\* a checkpoint handed to torch.save never holds a smaller best_acc1 than the
\* one handed to it before.
C6_BestNeverDecreases ==
    [][run' = run =>
          /\ best_acc1' >= best_acc1
          /\ (save_call # <<>> /\ save_call' # <<>>) =>
                save_call'[1].best_acc1 >= save_call[1].best_acc1]_vars

\* C6 witness: a resumed run has saved a checkpoint with a best_acc1 above the
\* one it loaded.
C6_Witness ==
    /\ resumed # <<>>
    /\ resumed[1].state.best_acc1 >= 1
    /\ save_call # <<>>
    /\ save_call[1].best_acc1 > resumed[1].state.best_acc1
    /\ best_acc1 = save_call[1].best_acc1

\* C7 as stated: when the training pass of epoch e is about to run, the
\* optimizer's learning rate is learning_rate * 0.1^(e // 30).
C7_LrFollowsSchedule ==
    pc = "train" =>
        optimizer.lr = cfg.learning_rate \div Pow10(epoch \div DecayPeriod)

\* C8: a run that resumed from a checkpoint written at epoch index e holds,
\* right after the load, the weights, the optimizer state and the best_acc1 the
\* saving run held when it saved; its start_epoch is e + 1, and the epochs it
\* trains are e + 1 and later ones, e + 1 first.
C8_RoundTrip ==
    resumed # <<>> =>
        LET from == resumed[1].from IN
        /\ start_epoch = from.epoch + 1
        /\ pc \in {"parallel", "baseline"} =>
              /\ net = from.net
              /\ optimizer = from.optimizer
              /\ best_acc1 = from.best_acc1
        /\ \A e \in trained : e >= from.epoch + 1
        /\ trained # {} => from.epoch + 1 \in trained

\* C8 witness: a resumed run has trained exactly the epoch after the one the
\* checkpoint was written in, on weights that had been trained before.
C8_Witness ==
    /\ resumed # <<>>
    /\ resumed[1].from.net >= 1
    /\ trained = {resumed[1].from.epoch + 1}

\* What the run held after lines 25-83: the loaded state, or the fresh one.
AfterResume ==
    IF resumed # <<>>
    THEN [net |-> WeightsOf(resumed[1].state.state_dict),
          optimizer |-> resumed[1].state.optimizer]
    ELSE [net |-> 0, optimizer |-> [lr |-> cfg.learning_rate, steps |-> 0]]

\* C9: a run makes one baseline validation pass, before any training pass; an
\* evaluate-only run ends right after it, with no training pass, no epoch
\* validation pass, no optimizer step, no learning-rate update, no write to the
\* log sink and no torch.save.
C9_BaselineThenReturn ==
    /\ baselines = (IF pc \in {"resume", "parallel", "baseline"} THEN 0 ELSE 1)
    /\ baselines = 0 => trained = {}
    /\ cfg.evaluate_only =>
          /\ pc \in {"resume", "parallel", "baseline", "done"}
          /\ trained = {} /\ validated = {}
          /\ lr_sets = 0
          /\ writer = NoWriter
          /\ save_call = <<>>
          /\ pc = "done" => (net = AfterResume.net /\ optimizer = AfterResume.optimizer)

\* C9 witness: an evaluate-only run with a checkpoint path and a log directory
\* has resumed from a checkpoint, made its baseline pass and returned.
C9_Witness ==
    /\ cfg.evaluate_only
    /\ pc = "done"
    /\ baselines = 1
    /\ resumed # <<>>
    /\ cfg.checkpoint = "ckpt"
    /\ cfg.log_dir

\* C10 as stated: a torch.save that fails does not end the run.
C10_SaveFailureNotFatal == pc # "crashed"

\* C11: a resume path that was given and is not a file is reported (line 83)
\* and nothing else: the run goes on to its baseline pass with the model, the
\* optimizer, best_acc1 = 0 and start_epoch = 0 of a run without a resume path,
\* trains from epoch 0, and does not end at the resume step.
C11_MissingCheckpointNotFatal ==
    /\ pc # "resume" =>
          (not_found <=> (cfg.resume # NoPath /\ resumed = <<>>))
    /\ not_found =>
          /\ start_epoch = 0
          /\ pc \in {"parallel", "baseline"} =>
                /\ net = 0
                /\ optimizer = [lr |-> cfg.learning_rate, steps |-> 0]
                /\ best_acc1 = 0
          /\ pc = "crashed" => save_call # <<>>
          /\ trained # {} => 0 \in trained

\* C11 witness: the second run on a disk without a checkpoint was given a
\* resume path, reported the missing file and trained epoch 0 to the end.
C11_Witness ==
    /\ run = 2
    /\ not_found
    /\ pc = "done"
    /\ ~cfg.evaluate_only
    /\ trained = 0..(cfg.epochs - 1)

RECURSIVE Invocations(_)
\* The closure invocations made on the batches 1..b.
Invocations(b) == IF b = 0 THEN 0 ELSE Invocations(b - 1) + invoked[b]

\* C12: in a pass whose scaled radius or factor is 0, propagate_bounds is never
\* called and every invocation returns the base loss itself; in a pass where
\* both are positive it is called once per invocation and the loss returned is
\* base_loss + factor * robust_loss.
C12_RobustTermOnlyWhenBothPositive ==
    /\ (epsilon = 0 \/ factor = 0) =>
          /\ bounds_calls = 0
          /\ Invocations(batch) >= 1 => loss = base_loss
    /\ (epsilon > 0 /\ factor > 0) =>
          /\ bounds_calls = Invocations(batch)
          /\ Invocations(batch) >= 1 =>
                loss = FloatAdd(base_loss, FloatMul(factor, robust_loss))

\* C12 witness: a training pass with a positive radius and factor 0 has invoked
\* the closure twice on its second batch and returned the base loss, a number.
C12_Witness ==
    /\ is_training
    /\ epsilon > 0
    /\ factor = 0
    /\ batch = 2
    /\ calls = 2
    /\ bounds_calls = 0
    /\ loss = base_loss
    /\ ~IsNaN(loss)

\* The positions of one_epoch between its setup and its return statement.
InPass == {"next", "step", "eval", "timed", "exit"}

\* C14: every step of an evaluation pass leaves the optimizer's step count and
\* the gradients alone, keeps the model in evaluation mode with the gradient
\* mode off from the first batch to the return statement, never enters
\* optimizer.step, and has invoked the closure exactly once for every batch it
\* has finished; every step of a training pass keeps the model in training
\* mode, and the closure is invoked only inside optimizer.step.
C14_PassModes ==
    [][/\ ~is_training =>
             /\ opt_steps' = opt_steps
             /\ grad' = grad
             /\ opc' # "step"
             /\ opc' \in InPass => (~training' /\ ~grad_enabled')
             /\ \A b \in 1..batch' :
                   invoked'[b] = (IF b = batch' /\ opc' = "eval" THEN 0 ELSE 1)
       /\ is_training =>
             /\ opc' \in InPass => training'
             /\ opc' # "eval"
             /\ (Len(invoked') = Len(invoked) /\ invoked' # invoked) =>
                   (opc = "step" /\ opc' = "step")]_vars

\* C14 witness: an evaluation pass over two batches has returned, the closure
\* invoked once on each, with no optimizer step and no gradient.
C14_Witness ==
    /\ ~is_training
    /\ opc = "returned"
    /\ invoked = <<1, 1>>
    /\ opt_steps = 0
    /\ grad = <<>>
    /\ ~training

\* The batches so far on which the closure was invoked.
InvokedBatches == {b \in 1..batch : invoked[b] >= 1}

\* C16: in a training pass the accumulated gradients are, after k >= 1
\* invocations of the closure on the current batch, the one term of the k-th
\* invocation on that batch, and at any other moment the one term of the last
\* invocation made so far (none before the first): never two terms.
C16_GradientsOfLastInvocation ==
    is_training =>
        /\ calls >= 1 => grad = << <<batch, calls>> >>
        /\ grad = (IF InvokedBatches = {} THEN <<>>
                   ELSE LET b == MaxOf(InvokedBatches) IN << <<b, invoked[b]>> >>)

\* C16 witness: inside optimizer.step on the second batch, after two invocations
\* on the first batch and three on the second.
C16_Witness ==
    /\ is_training
    /\ opc = "step"
    /\ batch = 2
    /\ invoked = <<2, 3>>
    /\ grad = << <<2, 3>> >>

\* C19: whenever the robust term has been computed, every row of the margin
\* logits has its own divisor, the divisor is temperature times the largest
\* absolute value of the row, and no divisor is zero.
C19_ScaleNeverZero ==
    bounds_calls >= 1 =>
        /\ DOMAIN scale = DOMAIN logits
        /\ Len(logits) = loader[MaxOf(InvokedBatches)]
        /\ \A i \in DOMAIN logits :
              /\ scale[i] # 0
              /\ \E j \in DOMAIN logits[i] : scale[i] = temperature * Abs(logits[i][j])
              /\ \A j \in DOMAIN logits[i] : scale[i] >= temperature * Abs(logits[i][j])

\* C19 witness: a batch of two samples whose first row has a negative logit as
\* its only non-zero one, scaled under temperature 2.
C19_Witness ==
    /\ bounds_calls >= 1
    /\ temperature = 2
    /\ Len(logits) = 2
    /\ logits[1] = <<-1, 0>>
    /\ scale[1] = 2

\* The names of a state_dict, in its order.
NameList(sd) == [i \in DOMAIN sd |-> sd[i].name]

\* C17: every record handed to torch.save, and the record on the disk, holds
\* each tensor under the name its parameter had before any wrapping, in the
\* model's order and whatever DataParallel wraps at the time of the save; at
\* the resume step the names of the file are exactly the names of the live
\* model, which is not wrapped yet, so no load fails on a name.
C17_UnwrappedNames ==
    /\ save_call # <<>> =>
          /\ NameList(save_call[1].state_dict) = ParamNames(cfg.model)
          /\ \A i \in DOMAIN save_call[1].state_dict :
                save_call[1].state_dict[i].value[1] = ParamNames(cfg.model)[i]
    /\ disk # <<>> => NameList(disk[1].state_dict) = ParamNames(cfg.model)
    /\ (pc = "resume" /\ is_file(cfg.resume)) =>
          /\ parallel = "none"
          /\ NamesOf(disk[1].state_dict) =
                {LiveName(ParamNames(cfg.model)[i], parallel) :
                    i \in DOMAIN ParamNames(cfg.model)}
    /\ pc = "crashed" => baselines = 1
    /\ (cfg.resume # NoPath /\ pc # "resume") => (resumed # <<>> \/ not_found)

\* C17 witness: a run on one device has resumed from the checkpoint that a run
\* with its feature extractor wrapped over two devices had saved.
C17_Witness ==
    /\ resumed # <<>>
    /\ resumed[1].from.parallel = "features"
    /\ cfg.devices = 1
    /\ parallel = "none"
    /\ pc = "done"

\* C18: the record handed to torch.save in an epoch holds, right after the
\* save, the Acc@1 average of that epoch's validation pass as best_acc1, the
\* epoch index + 1 as epoch, and the weights that this validation pass
\* measured, which are still the weights of the model; a file written to a
\* writable path is that record.
C18_CheckpointConsistent ==
    (pc \in {"nan", "crashed"} /\ SavedThisEpoch) =>
        /\ epoch \in validated
        /\ save_call[1].best_acc1 = val_acc.avg
        /\ save_call[1].epoch = epoch + 1
        /\ WeightsOf(save_call[1].state_dict) = val_net
        /\ \A i \in DOMAIN save_call[1].state_dict :
              save_call[1].state_dict[i].value[2] = val_net
        /\ net = val_net
        /\ Writable(cfg.checkpoint) => disk = save_call

\* C18 witness: the second epoch of a run has written a checkpoint with the
\* weights of two training passes and a best_acc1 above the first epoch's.
C18_Witness ==
    /\ pc = "nan"
    /\ SavedThisEpoch
    /\ epoch = start_epoch + 1
    /\ disk = save_call
    /\ WeightsOf(disk[1].state_dict) = 2
    /\ disk[1].best_acc1 > prev_best
    /\ prev_best >= 1

\* No training pass of the run so far has averaged NaN.
NoNaNPass == ~after_nan /\ ~IsNaN(train_loss.avg)

\* C15 as stated: a run that is not evaluate-only and has ended without a NaN
\* training pass has run the training pass and the validation pass of every
\* epoch start_epoch..epochs-1, and of no other epoch.
C15_AllEpochsUnlessNaN ==
    (pc \in {"done", "crashed"} /\ ~cfg.evaluate_only /\ NoNaNPass) =>
        /\ trained = start_epoch..(cfg.epochs - 1)
        /\ validated = start_epoch..(cfg.epochs - 1)

====
